---- MODULE Spec2Model ----
(***************************************************************************)
(* Model of libserial's SerialPort / SerialPortImpl (src/SerialPort.cpp): *)
(* one Port Handle bound to one serial device, the OS descriptor table of  *)
(* the process, and the device's termios line settings.                    *)
(*                                                                         *)
(* Every OS call an operation makes is appended to the operation's call    *)
(* trace `os`.  An operation takes a fault index failAt: the failAt-th OS  *)
(* call of the operation returns -1 (0: no call fails).                    *)
(***************************************************************************)
EXTENDS Integers, Sequences, FiniteSets, TLC

VARIABLES
    mIsOpen,            \* SerialPortImpl::mIsOpen
    mFileDescriptor,    \* SerialPortImpl::mFileDescriptor
    mOldPortSettings,   \* SerialPortImpl::mOldPortSettings
    liveFds,            \* OS: descriptors the handle obtained and has not released
    dev,                \* OS: termios settings of the serial device
    rx,                 \* OS: bytes buffered for reading on the device
    phase,              \* "live" | "destroyed" | "terminated" (std::terminate)
    pc,                 \* "idle" | "ReadByte" (spinning in the polling loop)
    last,               \* the most recent call: op, arg, fault, exc, thrown, ret, os
    devBeforeOpen,      \* history: device settings just before the last Open() that succeeded
    openedNotClosed,    \* history: an Open() returned normally and no Close() did since
    peer,               \* the Port Handle on the other device of a loopback pair, and its OS state
    line,               \* bytes the peer's device has transmitted and this device has not yet received
    sent,               \* history: the bytes of the peer's WriteByte() calls that returned normally
    received            \* history: the bytes ReadByte() returned

vars == <<mIsOpen, mFileDescriptor, mOldPortSettings, liveFds, dev, rx,
          phase, pc, last, devBeforeOpen, openedNotClosed,
          peer, line, sent, received>>

loopVars == <<peer, line, sent, received>>

----------------------------------------------------------------------------
(* Bounds *)

\* size of the process's descriptor table for the device: open() fails (EMFILE) when full
MaxFds == 2
\* capacity of the device's receive buffer
MaxBuf == 1
\* number of bytes the peer of a loopback pair writes
MaxSent == 2

----------------------------------------------------------------------------
(* termios: flag words are sets of bit names; |= is \cup, &= ~ is \ *)

CS5 == {}
CS6 == {"CSIZE_0"}
CS7 == {"CSIZE_1"}
CS8 == {"CSIZE_0", "CSIZE_1"}
CSIZE == {"CSIZE_0", "CSIZE_1"}

\* the enumerations of SerialPort.h; "INVALID" stands for any value outside the enumeration
CharSizes == {CS5, CS6, CS7, CS8}
Parities == {"PARITY_EVEN", "PARITY_ODD", "PARITY_NONE"}
StopBitsValues == {"STOP_BITS_1", "STOP_BITS_2"}
FlowControls == {"FLOW_CONTROL_HARD", "FLOW_CONTROL_NONE"}
BaudRates == {"B9600", "B115200", "B4000000"}
\* rates the device's hardware can run at; tcsetattr() keeps the old rate for any other
HwBauds == {"B9600", "B115200"}
Bytes == {65, 66}

\* settings the device may have before the program starts
CookedSettings ==
    [c_iflag |-> {"ICRNL", "IXON"},
     c_lflag |-> {"ICANON", "ECHO"}, c_oflag |-> {"OPOST"},
     c_cflag |-> CS8 \cup {"CREAD"}, vmin |-> 1, vtime |-> 0,
     c_ispeed |-> "B9600", c_ospeed |-> "B9600"]
RawSettings ==
    [c_iflag |-> {},
     c_lflag |-> {}, c_oflag |-> {},
     c_cflag |-> CS7 \cup {"PARENB", "PARODD", "CSTOPB", "CRTSCTS", "CREAD", "CLOCAL"},
     vmin |-> 0, vtime |-> 1,
     c_ispeed |-> "B115200", c_ospeed |-> "B115200"]
DevInit == {CookedSettings, RawSettings}
LcDevInit == {CookedSettings}

\* value-initialised termios (mOldPortSettings() in the constructor)
ZeroSettings ==
    [c_iflag |-> {}, c_lflag |-> {}, c_oflag |-> {}, c_cflag |-> {},
     vmin |-> 0, vtime |-> 0, c_ispeed |-> "B0", c_ospeed |-> "B0"]

----------------------------------------------------------------------------
(* The world an operation works on, and the result of an operation *)

World ==
    [mIsOpen |-> mIsOpen, mFileDescriptor |-> mFileDescriptor,
     mOldPortSettings |-> mOldPortSettings, liveFds |-> liveFds,
     dev |-> dev, rx |-> rx, os |-> <<>>, out |-> <<>>]

Res(w, exc, ret) == [w |-> w, exc |-> exc, thrown |-> exc, ret |-> ret]

OsCall(w, name) == [w EXCEPT !.os = Append(@, name)]

\* the next OS call of the operation is the one that fails
Fails(w, failAt) == Len(w.os) + 1 = failAt

\* open(): the lowest unused descriptor
NewFd(live) == CHOOSE n \in 0..MaxFds : n \notin live /\ \A m \in 0..(n-1) : m \in live

\* what the device holds after an accepted tcsetattr(): a rate the hardware
\* cannot run at is not taken, the previous rate stays
Applied(old, s) ==
    IF s.c_ospeed \in HwBauds /\ s.c_ispeed \in HwBauds
    THEN s
    ELSE [s EXCEPT !.c_ispeed = old.c_ispeed, !.c_ospeed = old.c_ospeed]

TcGetAttr(w, failAt) ==
    [ok |-> ~Fails(w, failAt), w |-> OsCall(w, "tcgetattr"), settings |-> w.dev]

TcSetAttr(w, s, failAt) ==
    [ok |-> ~Fails(w, failAt),
     w |-> IF Fails(w, failAt)
           THEN OsCall(w, "tcsetattr")
           ELSE [OsCall(w, "tcsetattr") EXCEPT !.dev = Applied(w.dev, s)]]

\* what the device's input path puts in the read buffer for a byte that
\* arrives on the line: with IXON the START (17) and STOP (19) characters
\* are taken as flow control and not buffered, with ICRNL a carriage return
\* (13) is buffered as a newline (10)
Input(settings, b) ==
    IF "IXON" \in settings.c_iflag /\ b \in {17, 19} THEN <<>>
    ELSE IF "ICRNL" \in settings.c_iflag /\ b = 13 THEN <<10>>
    ELSE <<b>>

\* a dynamic exception specification: an exception the list does not admit
\* calls std::unexpected(), which calls std::terminate()
Throws(r, list) ==
    IF r.exc \in list \cup {"none", "terminate"} THEN r ELSE [r EXCEPT !.exc = "terminate"]

----------------------------------------------------------------------------
(* SerialPortImpl *)

ImplIsOpen(w) == w.mIsOpen

\* Open() past its already-open check
OpenDevice(w, failAt) ==
    LET full == Cardinality(w.liveFds) >= MaxFds
        w1 == OsCall(w, "open")
    IN IF Fails(w, failAt) \/ full
       THEN Res([w1 EXCEPT !.mFileDescriptor = -1], "OpenFailed", "void")
       ELSE
       LET fd == NewFd(w.liveFds)
           w2 == [w1 EXCEPT !.mFileDescriptor = fd, !.liveFds = @ \cup {fd}]
           g  == TcGetAttr(w2, failAt)
       IN IF ~g.ok THEN Res(g.w, "OpenFailed", "void")
          ELSE
          LET w3 == [g.w EXCEPT !.mOldPortSettings = g.settings]
              port_settings ==
                  [w3.mOldPortSettings EXCEPT
                      !.c_lflag = {}, !.c_oflag = {},
                      !.c_cflag = @ \cup {"CREAD", "CLOCAL"},
                      !.vmin = 0, !.vtime = 0]
              s == TcSetAttr(w3, port_settings, failAt)
          IN IF ~s.ok THEN Res(s.w, "OpenFailed", "void")
             ELSE
             LET w4 == OsCall(s.w, "fcntl")
             IN IF Fails(s.w, failAt) THEN Res(w4, "OpenFailed", "void")
                ELSE Res([w4 EXCEPT !.mIsOpen = TRUE], "none", "void")

\* mutant: Open() without the already-open check
ImplOpen_Unchecked(w, failAt) == OpenDevice(w, failAt)

ImplOpen(w, failAt) ==
    IF ImplIsOpen(w) THEN Res(w, "AlreadyOpen", "void") ELSE OpenDevice(w, failAt)

\* mutant: Close() that leaves mIsOpen set
ImplClose_KeepsFlag(w, failAt) ==
    IF ~ImplIsOpen(w) THEN Res(w, "NotOpen", "void")
    ELSE
    LET s  == TcSetAttr(w, w.mOldPortSettings, failAt)
        w1 == [OsCall(s.w, "close") EXCEPT !.liveFds = @ \ {w.mFileDescriptor}]
    IN Res(w1, "none", "void")

\* mutant: Close() that releases the descriptor without restoring the settings
ImplClose_NoRestore(w, failAt) ==
    IF ~ImplIsOpen(w) THEN Res(w, "NotOpen", "void")
    ELSE
    LET w1 == [OsCall(w, "close") EXCEPT !.liveFds = @ \ {w.mFileDescriptor}]
    IN Res([w1 EXCEPT !.mIsOpen = FALSE], "none", "void")

ImplClose(w, failAt) ==
    IF ~ImplIsOpen(w) THEN Res(w, "NotOpen", "void")
    ELSE
    LET s  == TcSetAttr(w, w.mOldPortSettings, failAt)
        w1 == [OsCall(s.w, "close") EXCEPT !.liveFds = @ \ {w.mFileDescriptor}]
    IN Res([w1 EXCEPT !.mIsOpen = FALSE], "none", "void")

ImplSetBaudRate(w, baudRate, failAt) ==
    IF ~ImplIsOpen(w) THEN Res(w, "NotOpen", "void")
    ELSE
    LET g == TcGetAttr(w, failAt)
    IN IF ~g.ok THEN Res(g.w, "runtime_error", "void")
       ELSE IF baudRate \notin BaudRates
       THEN Res(g.w, "UnsupportedBaudRate", "void")
       ELSE
       LET s == TcSetAttr(g.w, [g.settings EXCEPT !.c_ispeed = baudRate,
                                                  !.c_ospeed = baudRate], failAt)
       IN IF ~s.ok THEN Res(s.w, "UnsupportedBaudRate", "void")
          ELSE Res(s.w, "none", "void")

ImplGetBaudRate(w, failAt) ==
    IF ~ImplIsOpen(w) THEN Res(w, "NotOpen", "void")
    ELSE
    LET g == TcGetAttr(w, failAt)
    IN IF ~g.ok THEN Res(g.w, "runtime_error", "void")
       ELSE Res(g.w, "none", g.settings.c_ispeed)

ImplSetCharSize(w, charSize, failAt) ==
    IF ~ImplIsOpen(w) THEN Res(w, "NotOpen", "void")
    ELSE
    LET g == TcGetAttr(w, failAt)
    IN IF ~g.ok THEN Res(g.w, "runtime_error", "void")
       ELSE
       LET s == TcSetAttr(g.w, [g.settings EXCEPT
                                   !.c_cflag = (@ \ CSIZE) \cup charSize], failAt)
       IN IF ~s.ok THEN Res(s.w, "invalid_argument", "void")
          ELSE Res(s.w, "none", "void")

ImplGetCharSize(w, failAt) ==
    IF ~ImplIsOpen(w) THEN Res(w, "NotOpen", "void")
    ELSE
    LET g == TcGetAttr(w, failAt)
    IN IF ~g.ok THEN Res(g.w, "runtime_error", "void")
       ELSE Res(g.w, "none", g.settings.c_cflag \cap CSIZE)

ImplSetParity(w, parityType, failAt) ==
    IF ~ImplIsOpen(w) THEN Res(w, "NotOpen", "void")
    ELSE
    LET g == TcGetAttr(w, failAt)
    IN IF ~g.ok THEN Res(g.w, "runtime_error", "void")
       ELSE IF parityType \notin Parities
       THEN Res(g.w, "invalid_argument", "void")
       ELSE
       LET c == g.settings.c_cflag
           cflag == CASE parityType = "PARITY_EVEN" -> (c \cup {"PARENB"}) \ {"PARODD"}
                      [] parityType = "PARITY_ODD"  -> c \cup {"PARENB", "PARODD"}
                      [] parityType = "PARITY_NONE" -> c \ {"PARENB"}
           s == TcSetAttr(g.w, [g.settings EXCEPT !.c_cflag = cflag], failAt)
       IN IF ~s.ok THEN Res(s.w, "invalid_argument", "void")
          ELSE Res(s.w, "none", "void")

\* mutant: GetParity() that looks at PARODD before PARENB
ImplGetParity_OddFirst(w, failAt) ==
    IF ~ImplIsOpen(w) THEN Res(w, "NotOpen", "void")
    ELSE
    LET g == TcGetAttr(w, failAt)
    IN IF ~g.ok THEN Res(g.w, "runtime_error", "void")
       ELSE IF "PARODD" \in g.settings.c_cflag
       THEN Res(g.w, "none", "PARITY_ODD")
       ELSE IF "PARENB" \in g.settings.c_cflag
       THEN Res(g.w, "none", "PARITY_EVEN")
       ELSE Res(g.w, "none", "PARITY_NONE")

ImplGetParity(w, failAt) ==
    IF ~ImplIsOpen(w) THEN Res(w, "NotOpen", "void")
    ELSE
    LET g == TcGetAttr(w, failAt)
    IN IF ~g.ok THEN Res(g.w, "runtime_error", "void")
       ELSE IF "PARENB" \in g.settings.c_cflag
       THEN IF "PARODD" \in g.settings.c_cflag
            THEN Res(g.w, "none", "PARITY_ODD")
            ELSE Res(g.w, "none", "PARITY_EVEN")
       ELSE Res(g.w, "none", "PARITY_NONE")

ImplSetNumOfStopBits(w, numOfStopBits, failAt) ==
    IF ~ImplIsOpen(w) THEN Res(w, "NotOpen", "void")
    ELSE
    LET g == TcGetAttr(w, failAt)
    IN IF ~g.ok THEN Res(g.w, "runtime_error", "void")
       ELSE IF numOfStopBits \notin StopBitsValues
       THEN Res(g.w, "invalid_argument", "void")
       ELSE
       LET c == g.settings.c_cflag
           cflag == CASE numOfStopBits = "STOP_BITS_1" -> c \ {"CSTOPB"}
                      [] numOfStopBits = "STOP_BITS_2" -> c \cup {"CSTOPB"}
           s == TcSetAttr(g.w, [g.settings EXCEPT !.c_cflag = cflag], failAt)
       IN IF ~s.ok THEN Res(s.w, "invalid_argument", "void")
          ELSE Res(s.w, "none", "void")

ImplGetNumOfStopBits(w, failAt) ==
    IF ~ImplIsOpen(w) THEN Res(w, "NotOpen", "void")
    ELSE
    LET g == TcGetAttr(w, failAt)
    IN IF ~g.ok THEN Res(g.w, "runtime_error", "void")
       ELSE IF "CSTOPB" \in g.settings.c_cflag
       THEN Res(g.w, "none", "STOP_BITS_2")
       ELSE Res(g.w, "none", "STOP_BITS_1")

ImplSetFlowControl(w, flowControl, failAt) ==
    IF ~ImplIsOpen(w) THEN Res(w, "NotOpen", "void")
    ELSE
    LET g == TcGetAttr(w, failAt)
    IN IF ~g.ok THEN Res(g.w, "runtime_error", "void")
       ELSE IF flowControl \notin FlowControls
       THEN Res(g.w, "invalid_argument", "void")
       ELSE
       LET c == g.settings.c_cflag
           cflag == CASE flowControl = "FLOW_CONTROL_HARD" -> c \cup {"CRTSCTS"}
                      [] flowControl = "FLOW_CONTROL_NONE" -> c \ {"CRTSCTS"}
           s == TcSetAttr(g.w, [g.settings EXCEPT !.c_cflag = cflag], failAt)
       IN IF ~s.ok THEN Res(s.w, "invalid_argument", "void")
          ELSE Res(s.w, "none", "void")

ImplGetFlowControl(w, failAt) ==
    IF ~ImplIsOpen(w) THEN Res(w, "NotOpen", "void")
    ELSE
    LET g == TcGetAttr(w, failAt)
    IN IF ~g.ok THEN Res(g.w, "runtime_error", "void")
       ELSE IF "CRTSCTS" \in g.settings.c_cflag
       THEN Res(g.w, "none", "FLOW_CONTROL_HARD")
       ELSE Res(g.w, "none", "FLOW_CONTROL_NONE")

ImplIsDataAvailable(w, failAt) ==
    IF ~ImplIsOpen(w) THEN Res(w, "NotOpen", "void")
    ELSE
    LET w1 == OsCall(w, "ioctl")
    IN IF Fails(w, failAt) THEN Res(w1, "runtime_error", "void")
       ELSE Res(w1, "none", Len(w.rx) # 0)

\* mutant: ReadByte() that tests the descriptor instead of the open flag
ImplReadByte_TestsDescriptor(w, failAt) ==
    IF w.mFileDescriptor < 0 THEN Res(w, "NotOpen", "void")
    ELSE
    LET w1 == OsCall(w, "ioctl")
    IN IF Fails(w, failAt) THEN Res(w1, "runtime_error", "void")
       ELSE IF Len(w.rx) = 0 THEN Res(w1, "none", -1)
       ELSE
       LET w2 == OsCall(w1, "read")
       IN IF Fails(w1, failAt) THEN Res(w2, "runtime_error", "void")
          ELSE Res([w2 EXCEPT !.rx = Tail(@)], "none", Head(w.rx))

\* one pass of ReadByte from the top of its polling loop; ret -1 when
\* IsDataAvailable() was false and the loop goes round again
ImplReadByte(w, failAt) ==
    IF ~ImplIsOpen(w) THEN Res(w, "NotOpen", "void")
    ELSE
    LET a == Throws(ImplIsDataAvailable(w, failAt), {"NotOpen", "runtime_error"})
    IN IF a.exc # "none" THEN a
       ELSE IF ~a.ret THEN Res(a.w, "none", -1)
       ELSE
       LET w1 == OsCall(a.w, "read")
       IN IF Fails(a.w, failAt) THEN Res(w1, "runtime_error", "void")
          ELSE Res([w1 EXCEPT !.rx = Tail(@)], "none", Head(w.rx))

ImplWriteByte(w, dataByte, failAt) ==
    IF ~ImplIsOpen(w) THEN Res(w, "NotOpen", "void")
    ELSE
    LET w1 == OsCall(w, "write")
    IN IF Fails(w, failAt) THEN Res(w1, "runtime_error", "void")
       ELSE Res([w1 EXCEPT !.out = Append(@, dataByte)], "none", "void")

\* ~SerialPortImpl
ImplDestroy(w, failAt) ==
    IF ImplIsOpen(w) THEN Throws(ImplClose(w, failAt), {"NotOpen"}) ELSE Res(w, "none", "void")

----------------------------------------------------------------------------
(* SerialPort: each method forwards to the implementation object, under *)
(* its own exception specification                                      *)

SerialPort_Close(w, failAt) ==
    Throws(Throws(ImplClose(w, failAt), {"NotOpen"}), {"NotOpen"})

SerialPort_SetBaudRate(w, baudRate, failAt) ==
    Throws(Throws(ImplSetBaudRate(w, baudRate, failAt),
                  {"NotOpen", "UnsupportedBaudRate", "invalid_argument", "runtime_error"}),
           {"UnsupportedBaudRate", "NotOpen", "invalid_argument"})

SerialPort_GetBaudRate(w, failAt) ==
    Throws(Throws(ImplGetBaudRate(w, failAt), {"NotOpen", "runtime_error"}),
           {"NotOpen", "runtime_error"})

SerialPort_SetCharSize(w, charSize, failAt) ==
    Throws(Throws(ImplSetCharSize(w, charSize, failAt),
                  {"NotOpen", "invalid_argument", "runtime_error"}),
           {"NotOpen", "invalid_argument"})

SerialPort_GetCharSize(w, failAt) ==
    Throws(Throws(ImplGetCharSize(w, failAt), {"NotOpen", "runtime_error"}),
           {"NotOpen"})

SerialPort_SetParity(w, parityType, failAt) ==
    Throws(Throws(ImplSetParity(w, parityType, failAt),
                  {"NotOpen", "invalid_argument", "runtime_error"}),
           {"NotOpen", "invalid_argument"})

SerialPort_GetParity(w, failAt) ==
    Throws(Throws(ImplGetParity(w, failAt), {"NotOpen"}), {"NotOpen"})

SerialPort_SetNumOfStopBits(w, numOfStopBits, failAt) ==
    Throws(Throws(ImplSetNumOfStopBits(w, numOfStopBits, failAt),
                  {"NotOpen", "invalid_argument"}),
           {"NotOpen", "invalid_argument"})

SerialPort_GetNumOfStopBits(w, failAt) ==
    Throws(Throws(ImplGetNumOfStopBits(w, failAt), {"NotOpen"}), {"NotOpen"})

SerialPort_SetFlowControl(w, flowControl, failAt) ==
    Throws(Throws(ImplSetFlowControl(w, flowControl, failAt),
                  {"NotOpen", "invalid_argument"}),
           {"NotOpen", "invalid_argument"})

SerialPort_GetFlowControl(w, failAt) ==
    Throws(Throws(ImplGetFlowControl(w, failAt), {"NotOpen"}), {"NotOpen"})

SerialPort_IsDataAvailable(w, failAt) ==
    Throws(Throws(ImplIsDataAvailable(w, failAt), {"NotOpen", "runtime_error"}),
           {"NotOpen"})

SerialPort_ReadByte(w, failAt) ==
    Throws(Throws(ImplReadByte(w, failAt), {"NotOpen", "runtime_error"}),
           {"NotOpen", "runtime_error"})

SerialPort_WriteByte(w, dataByte, failAt) ==
    Throws(Throws(ImplWriteByte(w, dataByte, failAt), {"NotOpen", "runtime_error"}),
           {"NotOpen", "runtime_error"})

\* the Open() inside SerialPort::Open
InnerOpen(w, failAt) == Throws(ImplOpen(w, failAt), {"OpenFailed", "AlreadyOpen"})

\* SerialPort::Open(baudRate, charSize, parityType, stopBits, flowControl)
SerialPort_Open(w, a, failAt) ==
    LET o == InnerOpen(w, failAt)
        c == IF o.exc = "none" THEN SerialPort_SetCharSize(o.w, a.charSize, failAt) ELSE o
        p == IF c.exc = "none" THEN SerialPort_SetParity(c.w, a.parityType, failAt) ELSE c
        s == IF p.exc = "none" THEN SerialPort_SetNumOfStopBits(p.w, a.stopBits, failAt) ELSE p
        f == IF s.exc = "none" THEN SerialPort_SetFlowControl(s.w, a.flowControl, failAt) ELSE s
    IN Throws(f, {"OpenFailed", "AlreadyOpen", "UnsupportedBaudRate", "invalid_argument"})

\* SerialPort::~SerialPort, which deletes the implementation object
SerialPort_Destroy(w, failAt) ==
    LET c == IF ImplIsOpen(w) THEN SerialPort_Close(w, failAt) ELSE Res(w, "none", "void")
        d == IF c.exc = "none" THEN ImplDestroy(c.w, failAt) ELSE c
    IN Throws(d, {})

----------------------------------------------------------------------------
(* Inputs *)

\* argument tuples of SerialPort::Open: the header's defaults (8N1, no flow
\* control), a second legal configuration, and one illegal value per enumeration
OpenConfigs ==
    { [charSize |-> CS8, parityType |-> "PARITY_NONE", stopBits |-> "STOP_BITS_1",
       flowControl |-> "FLOW_CONTROL_NONE"],
      [charSize |-> CS7, parityType |-> "PARITY_EVEN", stopBits |-> "STOP_BITS_2",
       flowControl |-> "FLOW_CONTROL_HARD"],
      [charSize |-> CS8, parityType |-> "INVALID", stopBits |-> "STOP_BITS_1",
       flowControl |-> "FLOW_CONTROL_NONE"],
      [charSize |-> CS5, parityType |-> "PARITY_ODD", stopBits |-> "INVALID",
       flowControl |-> "FLOW_CONTROL_NONE"],
      [charSize |-> CS6, parityType |-> "PARITY_ODD", stopBits |-> "STOP_BITS_2",
       flowControl |-> "INVALID"] }

OpenArgs ==
    { [baudRate |-> b, charSize |-> c.charSize, parityType |-> c.parityType,
       stopBits |-> c.stopBits, flowControl |-> c.flowControl] :
      b \in BaudRates, c \in OpenConfigs }

----------------------------------------------------------------------------
(* Specification *)

\* the state after SerialPort::SerialPort, on a device whose settings are in devs
Constructed(devs) ==
    /\ mIsOpen = FALSE
    /\ mFileDescriptor = -1
    /\ mOldPortSettings = ZeroSettings
    /\ liveFds = {}
    /\ dev \in devs
    /\ rx = <<>>
    /\ phase = "live"
    /\ pc = "idle"
    /\ last = [op |-> "SerialPort", arg |-> "void", fault |-> 0, exc |-> "none", thrown |-> "none",
               ret |-> "void", os |-> <<>>]
    /\ devBeforeOpen = ZeroSettings
    /\ openedNotClosed = FALSE
    /\ peer = [mIsOpen |-> FALSE, mFileDescriptor |-> -1,
               mOldPortSettings |-> ZeroSettings, liveFds |-> {},
               dev |-> CookedSettings, rx |-> <<>>]
    /\ line = <<>>
    /\ sent = <<>>
    /\ received = <<>>

Init == Constructed(LcDevInit)

InitCfg == Constructed(DevInit)

Ready == phase = "live" /\ pc = "idle"

\* the fault index names an OS call the operation made
Injected(failAt, r) == failAt = 0 \/ failAt <= Len(r.w.os)

\* the call returned or threw r; std::terminate() ends the process, whose
\* descriptors the OS then releases
Returned(op, arg, failAt, r) ==
    /\ Injected(failAt, r)
    /\ mIsOpen' = r.w.mIsOpen
    /\ mFileDescriptor' = r.w.mFileDescriptor
    /\ mOldPortSettings' = r.w.mOldPortSettings
    /\ liveFds' = IF r.exc = "terminate" THEN {} ELSE r.w.liveFds
    /\ dev' = r.w.dev
    /\ rx' = r.w.rx
    /\ phase' = IF r.exc = "terminate" THEN "terminated" ELSE phase
    /\ last' = [op |-> op, arg |-> arg, fault |-> failAt, exc |-> r.exc,
                thrown |-> r.thrown, ret |-> r.ret, os |-> r.w.os]

\* a call on the handle, which leaves the peer alone
Return(op, arg, failAt, r) ==
    /\ Returned(op, arg, failAt, r)
    /\ UNCHANGED loopVars

Open(a, failAt) ==
    /\ Ready
    /\ \E r \in {SerialPort_Open(World, a, failAt)} :
          Return("Open", a, failAt, r)
    /\ pc' = pc
    /\ LET o == InnerOpen(World, failAt)
       IN /\ devBeforeOpen' = IF o.exc = "none" THEN dev ELSE devBeforeOpen
          /\ openedNotClosed' = IF o.exc = "none" THEN TRUE ELSE openedNotClosed

IsOpen ==
    /\ Ready
    /\ last' = [op |-> "IsOpen", arg |-> "void", fault |-> 0, exc |-> "none", thrown |-> "none",
                ret |-> ImplIsOpen(World), os |-> <<>>]
    /\ UNCHANGED <<mIsOpen, mFileDescriptor, mOldPortSettings, liveFds, dev, rx,
                   phase, pc, devBeforeOpen, openedNotClosed>>
    /\ UNCHANGED loopVars

Close(failAt) ==
    /\ Ready
    /\ LET r == SerialPort_Close(World, failAt)
       IN /\ Return("Close", "void", failAt, r)
          /\ openedNotClosed' = IF r.exc = "none" THEN FALSE ELSE openedNotClosed
    /\ UNCHANGED <<pc, devBeforeOpen>>

SetBaudRate(baudRate, failAt) ==
    /\ Ready
    /\ \E r \in {SerialPort_SetBaudRate(World, baudRate, failAt)} :
          Return("SetBaudRate", baudRate, failAt, r)
    /\ UNCHANGED <<pc, devBeforeOpen, openedNotClosed>>

GetBaudRate(failAt) ==
    /\ Ready
    /\ \E r \in {SerialPort_GetBaudRate(World, failAt)} :
          Return("GetBaudRate", "void", failAt, r)
    /\ UNCHANGED <<pc, devBeforeOpen, openedNotClosed>>

SetCharSize(charSize, failAt) ==
    /\ Ready
    /\ \E r \in {SerialPort_SetCharSize(World, charSize, failAt)} :
          Return("SetCharSize", charSize, failAt, r)
    /\ UNCHANGED <<pc, devBeforeOpen, openedNotClosed>>

GetCharSize(failAt) ==
    /\ Ready
    /\ \E r \in {SerialPort_GetCharSize(World, failAt)} :
          Return("GetCharSize", "void", failAt, r)
    /\ UNCHANGED <<pc, devBeforeOpen, openedNotClosed>>

SetParity(parityType, failAt) ==
    /\ Ready
    /\ \E r \in {SerialPort_SetParity(World, parityType, failAt)} :
          Return("SetParity", parityType, failAt, r)
    /\ UNCHANGED <<pc, devBeforeOpen, openedNotClosed>>

GetParity(failAt) ==
    /\ Ready
    /\ \E r \in {SerialPort_GetParity(World, failAt)} :
          Return("GetParity", "void", failAt, r)
    /\ UNCHANGED <<pc, devBeforeOpen, openedNotClosed>>

SetNumOfStopBits(numOfStopBits, failAt) ==
    /\ Ready
    /\ \E r \in {SerialPort_SetNumOfStopBits(World, numOfStopBits, failAt)} :
          Return("SetNumOfStopBits", numOfStopBits, failAt, r)
    /\ UNCHANGED <<pc, devBeforeOpen, openedNotClosed>>

GetNumOfStopBits(failAt) ==
    /\ Ready
    /\ \E r \in {SerialPort_GetNumOfStopBits(World, failAt)} :
          Return("GetNumOfStopBits", "void", failAt, r)
    /\ UNCHANGED <<pc, devBeforeOpen, openedNotClosed>>

SetFlowControl(flowControl, failAt) ==
    /\ Ready
    /\ \E r \in {SerialPort_SetFlowControl(World, flowControl, failAt)} :
          Return("SetFlowControl", flowControl, failAt, r)
    /\ UNCHANGED <<pc, devBeforeOpen, openedNotClosed>>

GetFlowControl(failAt) ==
    /\ Ready
    /\ \E r \in {SerialPort_GetFlowControl(World, failAt)} :
          Return("GetFlowControl", "void", failAt, r)
    /\ UNCHANGED <<pc, devBeforeOpen, openedNotClosed>>

IsDataAvailable(failAt) ==
    /\ Ready
    /\ \E r \in {SerialPort_IsDataAvailable(World, failAt)} :
          Return("IsDataAvailable", "void", failAt, r)
    /\ UNCHANGED <<pc, devBeforeOpen, openedNotClosed>>

\* ReadByte is called, or (pc = "ReadByte") goes round its polling loop once more
ReadByte(failAt) ==
    /\ phase = "live"
    /\ LET r == SerialPort_ReadByte(World, failAt)
       IN /\ Return("ReadByte", "void", failAt, r)
          /\ pc' = IF r.exc = "none" /\ r.ret = -1 THEN "ReadByte" ELSE "idle"
    /\ UNCHANGED <<devBeforeOpen, openedNotClosed>>

WriteByte(dataByte, failAt) ==
    /\ Ready
    /\ \E r \in {SerialPort_WriteByte(World, dataByte, failAt)} :
          Return("WriteByte", dataByte, failAt, r)
    /\ UNCHANGED <<pc, devBeforeOpen, openedNotClosed>>

Destroy(failAt) ==
    /\ Ready
    /\ LET r == SerialPort_Destroy(World, failAt)
       IN /\ Injected(failAt, r)
          /\ mIsOpen' = r.w.mIsOpen
          /\ mFileDescriptor' = r.w.mFileDescriptor
          /\ mOldPortSettings' = r.w.mOldPortSettings
          /\ liveFds' = r.w.liveFds
          /\ dev' = r.w.dev
          /\ rx' = r.w.rx
          /\ phase' = IF r.exc = "terminate" THEN "terminated" ELSE "destroyed"
          /\ last' = [op |-> "~SerialPort", arg |-> "void", fault |-> failAt,
                      exc |-> r.exc, thrown |-> r.thrown, ret |-> r.ret, os |-> r.w.os]
    /\ UNCHANGED <<pc, devBeforeOpen, openedNotClosed>>
    /\ UNCHANGED loopVars

\* a byte arrives on the line from outside, which the device buffers
Arrive(b) ==
    /\ phase = "live"
    /\ Len(rx) < MaxBuf
    /\ rx' = rx \o Input(dev, b)
    /\ last' = [op |-> "Arrive", arg |-> b, fault |-> 0, exc |-> "none",
                thrown |-> "none", ret |-> "void", os |-> <<>>]
    /\ UNCHANGED <<mIsOpen, mFileDescriptor, mOldPortSettings, liveFds, dev,
                   phase, pc, devBeforeOpen, openedNotClosed>>
    /\ UNCHANGED loopVars

(* The lifecycle specification: every operation and every OS fault, with *)
(* one device-changing value and one illegal value per setter.            *)

LcOpenArgs ==
    { a \in OpenArgs : /\ a.baudRate = "B115200"
                       /\ a.charSize = CS8
                       /\ a.stopBits = "STOP_BITS_1" }
LcBaudRates == {"B115200", "INVALID"}
LcCharSizes == {CS8}
LcParities == {"PARITY_ODD", "INVALID"}
LcStopBits == {"STOP_BITS_1", "INVALID"}
LcFlowControls == {"FLOW_CONTROL_NONE", "INVALID"}
LcBytes == {65}

Next ==
    \/ \E a \in LcOpenArgs, failAt \in 0..12 : Open(a, failAt)
    \/ IsOpen
    \/ \E failAt \in 0..1 : Close(failAt)
    \/ \E baudRate \in LcBaudRates, failAt \in 0..2 : SetBaudRate(baudRate, failAt)
    \/ \E failAt \in 0..1 : GetBaudRate(failAt)
    \/ \E charSize \in LcCharSizes, failAt \in 0..2 : SetCharSize(charSize, failAt)
    \/ \E failAt \in 0..1 : GetCharSize(failAt)
    \/ \E parityType \in LcParities, failAt \in 0..2 : SetParity(parityType, failAt)
    \/ \E failAt \in 0..1 : GetParity(failAt)
    \/ \E numOfStopBits \in LcStopBits, failAt \in 0..2 :
          SetNumOfStopBits(numOfStopBits, failAt)
    \/ \E failAt \in 0..1 : GetNumOfStopBits(failAt)
    \/ \E flowControl \in LcFlowControls, failAt \in 0..2 :
          SetFlowControl(flowControl, failAt)
    \/ \E failAt \in 0..1 : GetFlowControl(failAt)
    \/ \E failAt \in 0..1 : IsDataAvailable(failAt)
    \/ \E failAt \in 0..2 : ReadByte(failAt)
    \/ \E dataByte \in LcBytes, failAt \in 0..1 : WriteByte(dataByte, failAt)
    \/ \E failAt \in 0..1 : Destroy(failAt)
    \/ \E b \in LcBytes : Arrive(b)

Spec == Init /\ [][Next]_vars

(* The configuration specification: Open, Close and every setter and     *)
(* getter over the complete enumerations, with OS faults in the setters  *)
(* and getters; Open and the restoring write of Close succeed.           *)

NextCfg ==
    \/ \E a \in OpenArgs : Open(a, 0)
    \/ IsOpen
    \/ Close(0)
    \/ \E baudRate \in BaudRates \cup {"INVALID"}, failAt \in 0..2 : SetBaudRate(baudRate, failAt)
    \/ \E failAt \in 0..1 : GetBaudRate(failAt)
    \/ \E charSize \in CharSizes, failAt \in 0..2 : SetCharSize(charSize, failAt)
    \/ \E failAt \in 0..1 : GetCharSize(failAt)
    \/ \E parityType \in Parities \cup {"INVALID"}, failAt \in 0..2 : SetParity(parityType, failAt)
    \/ \E failAt \in 0..1 : GetParity(failAt)
    \/ \E numOfStopBits \in StopBitsValues \cup {"INVALID"}, failAt \in 0..2 :
          SetNumOfStopBits(numOfStopBits, failAt)
    \/ \E failAt \in 0..1 : GetNumOfStopBits(failAt)
    \/ \E flowControl \in FlowControls \cup {"INVALID"}, failAt \in 0..2 :
          SetFlowControl(flowControl, failAt)
    \/ \E failAt \in 0..1 : GetFlowControl(failAt)

SpecCfg == InitCfg /\ [][NextCfg]_vars

(* The loopback specification: the handle's device and the peer's device  *)
(* are wired together; the peer writes bytes, the line carries them to    *)
(* the handle's device, and the handle polls and reads them.  No OS call  *)
(* fails here apart from the peer's write.                                *)

\* the peer Port Handle as the world its operations work on
PeerWorld ==
    [mIsOpen |-> peer.mIsOpen, mFileDescriptor |-> peer.mFileDescriptor,
     mOldPortSettings |-> peer.mOldPortSettings, liveFds |-> peer.liveFds,
     dev |-> peer.dev, rx |-> peer.rx, os |-> <<>>, out |-> <<>>]

HandleOf(w) ==
    [mIsOpen |-> w.mIsOpen, mFileDescriptor |-> w.mFileDescriptor,
     mOldPortSettings |-> w.mOldPortSettings, liveFds |-> w.liveFds,
     dev |-> w.dev, rx |-> w.rx]

\* 9600 baud, 8 data bits, no parity, 1 stop bit, no flow control
LoopOpenArgs ==
    { a \in OpenArgs : /\ a.baudRate = "B9600"
                       /\ a.charSize = CS8
                       /\ a.parityType = "PARITY_NONE"
                       /\ a.stopBits = "STOP_BITS_1"
                       /\ a.flowControl = "FLOW_CONTROL_NONE" }
\* 'A', carriage return, STOP (control-S)
LoopBytes == {65, 13, 19}

\* SerialPort::Open on the peer
PeerOpen(a) ==
    /\ phase = "live"
    /\ \E r \in {SerialPort_Open(PeerWorld, a, 0)} :
          /\ peer' = HandleOf(r.w)
          /\ last' = [op |-> "PeerOpen", arg |-> a, fault |-> 0, exc |-> r.exc,
                      thrown |-> r.thrown, ret |-> r.ret, os |-> r.w.os]
    /\ UNCHANGED <<mIsOpen, mFileDescriptor, mOldPortSettings, liveFds, dev, rx,
                   phase, pc, devBeforeOpen, openedNotClosed, line, sent, received>>

\* SerialPort::WriteByte on the peer, once the handle is open; what write()
\* took goes out on the line
PeerWriteByte(dataByte, failAt) ==
    /\ Ready
    /\ mIsOpen
    /\ Len(sent) < MaxSent
    /\ \E r \in {SerialPort_WriteByte(PeerWorld, dataByte, failAt)} :
          /\ Injected(failAt, r)
          /\ peer' = HandleOf(r.w)
          /\ line' = line \o r.w.out
          /\ sent' = IF r.exc = "none" THEN Append(sent, dataByte) ELSE sent
          /\ last' = [op |-> "PeerWriteByte", arg |-> dataByte, fault |-> failAt,
                      exc |-> r.exc, thrown |-> r.thrown, ret |-> r.ret, os |-> r.w.os]
    /\ UNCHANGED <<mIsOpen, mFileDescriptor, mOldPortSettings, liveFds, dev, rx,
                   phase, pc, devBeforeOpen, openedNotClosed, received>>

\* the line carries its oldest byte to the handle's device
Deliver ==
    /\ phase = "live"
    /\ line # <<>>
    /\ rx' = rx \o Input(dev, Head(line))
    /\ line' = Tail(line)
    /\ last' = [op |-> "Deliver", arg |-> Head(line), fault |-> 0, exc |-> "none",
                thrown |-> "none", ret |-> "void", os |-> <<>>]
    /\ UNCHANGED <<mIsOpen, mFileDescriptor, mOldPortSettings, liveFds, dev,
                   phase, pc, devBeforeOpen, openedNotClosed, peer, sent, received>>

\* ReadByte on the handle of the pair: called, or once more round its polling loop
PairReadByte ==
    /\ phase = "live"
    /\ LET r == SerialPort_ReadByte(World, 0)
       IN /\ Returned("ReadByte", "void", 0, r)
          /\ pc' = IF r.exc = "none" /\ r.ret = -1 THEN "ReadByte" ELSE "idle"
          /\ received' = IF r.exc = "none" /\ r.ret # -1
                         THEN Append(received, r.ret) ELSE received
    /\ UNCHANGED <<devBeforeOpen, openedNotClosed, peer, line, sent>>

NextLoop ==
    \/ \E a \in LoopOpenArgs : Open(a, 0)
    \/ \E a \in LoopOpenArgs : PeerOpen(a)
    \/ \E dataByte \in LoopBytes, failAt \in 0..1 : PeerWriteByte(dataByte, failAt)
    \/ Deliver
    \/ IsDataAvailable(0)
    \/ PairReadByte

\* the line keeps transmitting, and the handle keeps calling ReadByte, whose
\* loop keeps polling
SpecLoop ==
    InitCfg /\ [][NextLoop]_vars /\ WF_line(Deliver) /\ WF_<<pc, rx>>(PairReadByte)

----------------------------------------------------------------------------
(* Properties *)

\* the handle's own state and the OS state it acts on
handle == <<mIsOpen, mFileDescriptor, mOldPortSettings, liveFds, dev, rx>>

\* C1: a Port Handle holds at most one live OS descriptor at any time, also
\* across Open() calls that fail after open() succeeded and are retried.
C1_AtMostOneDescriptor == Cardinality(liveFds) <= 1

\* C2: after SerialPort::Open(baudRate, charSize, parity, stopBits,
\* flowControl) returns successfully, the device's baud rate is the requested
\* one and each of the other four settings has its requested value.
C2_FullOpenAppliesAll ==
    (last.op = "Open" /\ last.exc = "none") =>
        /\ ImplGetBaudRate(World, 0).ret = last.arg.baudRate
        /\ ImplGetCharSize(World, 0).ret = last.arg.charSize
        /\ ImplGetParity(World, 0).ret = last.arg.parityType
        /\ ImplGetNumOfStopBits(World, 0).ret = last.arg.stopBits
        /\ ImplGetFlowControl(World, 0).ret = last.arg.flowControl

\* C3: IsOpen() is true exactly after an Open() that returned normally and
\* before the next Close(): false after construction, after every Close()
\* and after an Open() that failed with OpenFailed.
C3_IsOpenReflects ==
    phase = "live" =>
        /\ ImplIsOpen(World) = openedNotClosed
        /\ last.op = "IsOpen" => last.ret = openedNotClosed
        /\ last.op = "SerialPort" => ~ImplIsOpen(World)
        /\ last.op = "Close" => ~ImplIsOpen(World)
        /\ (last.op = "Open" /\ last.exc = "OpenFailed") => ~ImplIsOpen(World)

C3_Witness ==
    /\ last.op = "IsOpen"
    /\ last.ret = TRUE
    /\ openedNotClosed
    /\ Cardinality(liveFds) > 1

\* C4: Open() on a handle that is already open fails with AlreadyOpen, makes
\* no OS call and changes nothing: the handle stays open with the same
\* descriptor and snapshot, no descriptor is obtained, the device settings stay.
C4_OpenOnOpenHandle ==
    [][ (phase = "live" /\ mIsOpen /\ last'.op = "Open") =>
            /\ last'.exc = "AlreadyOpen"
            /\ last'.os = <<>>
            /\ phase' = "live"
            /\ UNCHANGED handle ]_vars

C4_Witness == mIsOpen /\ last.op = "Open" /\ last.exc = "AlreadyOpen"

NotOpenOps ==
    {"SetBaudRate", "GetBaudRate", "SetCharSize", "GetCharSize", "SetParity",
     "GetParity", "SetNumOfStopBits", "GetNumOfStopBits", "SetFlowControl",
     "GetFlowControl", "IsDataAvailable", "ReadByte", "WriteByte", "Close"}

\* C5: on a closed handle each of the fourteen operations fails with
\* NotOpen, makes no OS call and leaves the handle closed; ReadByte does not
\* enter its polling loop.
C5_ClosedHandleNotOpen ==
    [][ (phase = "live" /\ ~mIsOpen /\ last'.op \in NotOpenOps) =>
            /\ last'.exc = "NotOpen"
            /\ last'.os = <<>>
            /\ pc' = "idle"
            /\ phase' = "live"
            /\ UNCHANGED handle ]_vars

\* ReadByte refused on a handle that is closed after a failed Open() left a descriptor behind
C5_Witness ==
    /\ ~mIsOpen
    /\ liveFds # {}
    /\ last.op = "ReadByte"
    /\ last.exc = "NotOpen"

\* what the four getters return on an open handle whose settings fetch succeeds
Getters(w) ==
    [SetCharSize      |-> ImplGetCharSize(w, 0).ret,
     SetParity        |-> ImplGetParity(w, 0).ret,
     SetNumOfStopBits |-> ImplGetNumOfStopBits(w, 0).ret,
     SetFlowControl   |-> ImplGetFlowControl(w, 0).ret]

GetterOf ==
    [SetCharSize |-> "GetCharSize", SetParity |-> "GetParity",
     SetNumOfStopBits |-> "GetNumOfStopBits", SetFlowControl |-> "GetFlowControl"]

\* C6: on an open handle a setter of character size, parity, stop bits or
\* flow control that returns normally makes its getter return the value set
\* and leaves what the other three getters return; a getter called right
\* after its setter returns the value set.
C6_SetGetRoundTrip ==
    [][ /\ (/\ phase = "live" /\ mIsOpen
            /\ last'.op \in DOMAIN GetterOf
            /\ last'.exc = "none")
           => Getters(World)' = [Getters(World) EXCEPT ![last'.op] = last'.arg]
        /\ (/\ phase = "live"
            /\ last.op \in DOMAIN GetterOf
            /\ last.exc = "none"
            /\ last'.op = GetterOf[last.op]
            /\ last'.exc = "none")
           => last'.ret = last.arg ]_vars

\* GetParity() returns none while the odd flag of an earlier SetParity(odd) is still set
C6_Witness ==
    /\ last.op = "GetParity"
    /\ last.exc = "none"
    /\ last.ret = "PARITY_NONE"
    /\ "PARODD" \in dev.c_cflag

\* C7: on an open handle SetParity, SetNumOfStopBits or SetFlowControl with a
\* value outside the enumeration fails with invalid-argument, writes nothing
\* to the device and leaves the handle open.
C7_InvalidValueRejected ==
    [][ (/\ phase = "live" /\ mIsOpen
         /\ last'.op \in {"SetParity", "SetNumOfStopBits", "SetFlowControl"}
         /\ last'.arg = "INVALID")
        => /\ last'.exc = "invalid_argument"
           /\ \A i \in 1..Len(last'.os) : last'.os[i] # "tcsetattr"
           /\ dev' = dev
           /\ mIsOpen'
           /\ phase' = "live" ]_vars

\* C8: destroying an open handle restores the settings once and releases the
\* descriptor once, and afterwards the handle holds no descriptor.
C8_DestroyReleases ==
    (phase = "destroyed" /\ last.os # <<>>) =>
        /\ last.os = <<"tcsetattr", "close">>
        /\ liveFds = {}

\* C9: Close() on an open handle never fails, releases the held descriptor
\* and closes the handle, also when the restoring write is rejected; when it
\* is accepted the device has the settings it had just before the Open().
C9_CloseRestores ==
    [][ (phase = "live" /\ mIsOpen /\ last'.op = "Close") =>
            /\ last'.exc = "none"
            /\ phase' = "live"
            /\ ~mIsOpen'
            /\ mFileDescriptor \in liveFds
            /\ liveFds' = liveFds \ {mFileDescriptor}
            /\ last'.os = <<"tcsetattr", "close">>
            /\ last'.fault = 0 => dev' = devBeforeOpen
            /\ last'.fault # 0 => dev' = dev ]_vars

\* Close() gave the device back the settings it had before Open() changed them
C9_Witness ==
    /\ last.op = "Close"
    /\ last.exc = "none"
    /\ last.fault = 0
    /\ dev = devBeforeOpen
    /\ dev = CookedSettings
    /\ mOldPortSettings = CookedSettings

\* C10: a failing OS call on an open handle reaches the caller of the public
\* operation as an error its exception specification admits; it never ends
\* the program.
C10_FailuresSurfaced == last.exc # "terminate" /\ phase # "terminated"

\* C11: when SetBaudRate(r) on an open handle returns normally the device
\* runs at r, and a GetBaudRate() that follows returns r, also when the
\* settings write reports success but the device keeps another rate; a
\* rate that differs from the requested one is an UnsupportedBaudRate failure.
C11_BaudRateVerified ==
    [][ /\ (/\ phase = "live" /\ mIsOpen
            /\ last'.op = "SetBaudRate"
            /\ last'.exc = "none")
           => ImplGetBaudRate(World, 0).ret' = last'.arg
        /\ (/\ phase = "live"
            /\ last.op = "SetBaudRate"
            /\ last.exc = "none"
            /\ last'.op = "GetBaudRate"
            /\ last'.exc = "none")
           => last'.ret = last.arg ]_vars

\* C12: on a loopback pair of open handles every byte the peer's WriteByte
\* wrote becomes available on the handle and is returned unchanged by
\* ReadByte, in the order written: ReadByte with no data buffered polls
\* again and returns nothing, with data buffered it polls once, does one
\* single-byte read that removes one byte from the buffer, and returns the
\* next byte the peer wrote.
C12_LoopbackDelivers ==
    /\ [][ (phase = "live" /\ mIsOpen /\ last'.op = "ReadByte") =>
              IF rx = <<>>
              THEN /\ pc' = "ReadByte"
                   /\ last'.os = <<"ioctl">>
                   /\ rx' = rx
                   /\ received' = received
              ELSE /\ pc' = "idle"
                   /\ last'.exc = "none"
                   /\ last'.os = <<"ioctl", "read">>
                   /\ rx' = Tail(rx)
                   /\ received' = Append(received, last'.ret)
                   /\ last'.ret = sent[Len(received')] ]_vars
    /\ \A k \in 1..MaxSent :
          (Len(sent) >= k) ~> (Len(received) >= k /\ received[k] = sent[k])

====
